---- MODULE Spec2Model ----
(***************************************************************************)
(* Model of HDF5Writer (Lima_plugins/HDF5Sink.py): one writer instance,    *)
(* one container file, a control thread calling init / flush / close /     *)
(* setConfig and frame threads calling write.  Every `with self._sem:`     *)
(* block is one atomic step taken while the semaphore is held; the steps   *)
(* before it (the call, the acquisition of the semaphore) are separate.    *)
(*                                                                         *)
(* Strings the code computes with (prefixes, entry names, paths) are       *)
(* sequences of one-character strings, so that endswith, startswith,       *)
(* "%s%04d" and posixpath.join are computed and not assumed.  Python's     *)
(* None is <<>> for a name or a tuple, "None" for the file handle.         *)
(***************************************************************************)
EXTENDS Integers, Sequences, FiniteSets, TLC

\* ------------------------------------------------------------------ bounds
\* At most MaxClock calls are made in all; the clock advances with each call.
MaxClock == 3
\* write() is called with an index in 0..MaxIndex and a buffer whose pixels
\* have a value in 1..MaxBuf.
MaxIndex == 1
MaxBuf == 2
\* number_of_frames is drawn from -1..MaxFrames, min_size from -1..MaxMinSize.
MaxFrames == 2
MaxMinSize == 2

\* --------------------------------------------------------------- constants
\* The value of a slot never written: the dataset is created without a
\* fillvalue argument, so HDF5's default applies.
FillValue == 0
\* threading.Semaphore() starts at 1.
SemInitial == 1

Control == "ctl"
Writers == {"w1", "w2"}
Threads == {Control} \cup Writers

NoneName == << >>
NoneTuple == << >>
PyNone == [py |-> "None"]

\* CONFIG_ITEMS["hpath"], CONFIG_ITEMS["lima_grp"], CONFIG_ITEMS["min_size"]
DefaultHpath == <<"e", "n", "t", "r", "y", "_">>
LimaGrp == <<"L", "I", "m", "A", "_", "D", "A", "T", "A">>
DefaultMinSize == 1
CONFIG_ITEMS ==
    {"filename", "dirname", "extension", "subdir", "hpath", "lima_grp",
     "dataset_name", "compression", "min_size", "detector_name", "metadata_grp"}

\* ----------------------------------------------------------- pure helpers
Max(a, b) == IF a >= b THEN a ELSE b

\* Python's a // b (floor division), b # 0.
FloorDiv(a, b) == IF b > 0 THEN a \div b ELSE (0 - a) \div (0 - b)

\* s.endswith("_")
EndsWithUnderscore(s) == Len(s) > 0 /\ s[Len(s)] = "_"

\* s.startswith(p)
StartsWith(s, p) == Len(p) <= Len(s) /\ SubSeq(s, 1, Len(p)) = p

Digit(k) == <<"0", "1", "2", "3", "4", "5", "6", "7", "8", "9">>[k + 1]

\* "%04d" % n, for 0 <= n < 10000
Pad4(n) ==
    <<Digit((n \div 1000) % 10), Digit((n \div 100) % 10),
      Digit((n \div 10) % 10), Digit(n % 10)>>

\* posixpath.join(a, b) for a relative b and an a that does not end in "/"
PosixJoin(a, b) == a \o <<"/">> \o b

\* lima_cfg.get(k, d)
Get(cfg, k, d) == IF k \in DOMAIN cfg THEN cfg[k] ELSE d

\* ------------------------------------------------------------------- state
VARIABLES
    sem,          \* self._sem: the semaphore's counter
    initialized,  \* self._initialized
    hpath,        \* self.hpath
    min_size,     \* self.min_size
    hdf5,         \* self.hdf5: "None" or "File"
    nopen,        \* h5py.File objects opened and not closed
    group,        \* self.group: the entry whose data group it is, or NoneName
    dataset,      \* self.dataset: the entry whose dataset it is, or NoneName
    chunk,        \* self.chunk
    shape,        \* self.shape
    file,         \* the file at self.filename: "absent", "corrupt", "valid"
    entries,      \* the container's top-level names and what each holds
    clock,        \* the wall clock getIsoTime() reads
    pc,           \* where each thread is
    arg,          \* the arguments of the call a thread is executing
    last,         \* the call that returned last, and how it ended
    life,         \* the lifecycle state of spec 4.4, from the calls' outcomes
    written       \* per index, the buffer last written in the current run,
                  \* as a set: empty while the index was never written

vars == <<sem, initialized, hpath, min_size, hdf5, nopen, group, dataset,
          chunk, shape, file, entries, clock, pc, arg, last, life, written>>

\* What a top-level name of the container holds.
NewEntry ==
    [meta |-> {}, has_ds |-> FALSE, shape |-> NoneTuple, chunk |-> NoneTuple,
     data |-> << >>, start |-> << >>, stop |-> << >>]

\* An entry an earlier process wrote and closed: one frame, never written.
OldEntry ==
    [meta |-> {"detector_name", "number_of_frames"}, has_ds |-> TRUE,
     shape |-> <<1, 1, 1>>, chunk |-> <<1, 1, 1>>,
     data |-> <<FillValue>>, start |-> <<0>>, stop |-> <<0>>]

EmptyContainer == [n \in {} |-> NewEntry]

\* The containers a valid file may hold when the writer is constructed: an
\* entry of an earlier process, numbered 0 or 1, or (a file of another
\* origin) an empty group that has the name of an entry.
InitialContainers ==
    { (DefaultHpath \o Pad4(0)) :> OldEntry,
      (DefaultHpath \o Pad4(1)) :> OldEntry,
      (DefaultHpath \o Pad4(1)) :> NewEntry }

NoArg == [op |-> "none"]
NoRet == [op |-> "none", exc |-> "ok"]
Unwritten == [i \in 0..MaxIndex |-> {}]

\* The writer's fields and the file, as one record the code's steps transform,
\* with what the call reports: the exception it ends with, the h5py.File and
\* os.unlink calls init made, whether flush found a stop_time to delete.
Cur ==
    [hpath |-> hpath, min_size |-> min_size, hdf5 |-> hdf5, nopen |-> nopen,
     group |-> group, dataset |-> dataset, chunk |-> chunk, shape |-> shape,
     file |-> file, entries |-> entries,
     exc |-> "ok", opens |-> 0, unlinks |-> 0, replaced |-> FALSE]

Commit(s) ==
    /\ hpath' = s.hpath
    /\ min_size' = s.min_size
    /\ hdf5' = s.hdf5
    /\ nopen' = s.nopen
    /\ group' = s.group
    /\ dataset' = s.dataset
    /\ chunk' = s.chunk
    /\ shape' = s.shape
    /\ file' = s.file
    /\ entries' = s.entries

Raise(s, e) == [s EXCEPT !.exc = e]

\* ------------------------------------------------------ init, step by step
\* (mutant of InitOpen, below) the IOError of the first open is propagated
InitOpenNoRecovery(s, io) ==
    IF s.file # "corrupt"
    THEN [s EXCEPT !.hdf5 = "File", !.nopen = @ + 1, !.file = "valid",
                   !.entries = IF s.file = "absent" THEN EmptyContainer ELSE @,
                   !.opens = 1]
    ELSE Raise([s EXCEPT !.opens = 1], "IOError")

\* lines 229-234.  h5py.File(self.filename) raises IOError on a file that is
\* no HDF5 file; a missing file is created empty.  io = "retry_fails": the
\* second h5py.File call, after os.unlink, raises IOError too.
InitOpen(s, io) ==
    IF s.file # "corrupt"
    THEN [s EXCEPT !.hdf5 = "File", !.nopen = @ + 1, !.file = "valid",
                   !.entries = IF s.file = "absent" THEN EmptyContainer ELSE @,
                   !.opens = 1]
    ELSE LET unlinked == [s EXCEPT !.file = "absent", !.entries = EmptyContainer,
                                   !.opens = 2, !.unlinks = 1]
         IN  IF io = "retry_fails"
             THEN Raise(unlinked, "IOError")
             ELSE [unlinked EXCEPT !.hdf5 = "File", !.nopen = @ + 1,
                                   !.file = "valid"]

\* prefix = lima_cfg.get("prefix") or self.CONFIG_ITEMS["hpath"], then the
\* trailing "_"
Prefix(cfg) ==
    LET p == Get(cfg, "prefix", NoneName)
        q == IF p = NoneName THEN DefaultHpath ELSE p
    IN  IF EndsWithUnderscore(q) THEN q ELSE q \o <<"_">>

\* [i.startswith(prefix) for i in self.hdf5]: one boolean per top-level name
StartsWithList(names, prefix) == [i \in names |-> StartsWith(i, prefix)]

\* entries = len([i.startswith(prefix) for i in self.hdf5])
CountEntries(names, prefix) == Cardinality(DOMAIN StartsWithList(names, prefix))

\* "%s%04d" % (prefix, entries)
EntryName(names, prefix) == prefix \o Pad4(CountEntries(names, prefix))

\* lines 239-246: the entry's name, self.hpath, the entry and its data group
InitEntry(s, cfg) ==
    IF s.exc # "ok" THEN s
    ELSE IF cfg = PyNone THEN Raise(s, "AttributeError")
    ELSE LET name == EntryName(DOMAIN s.entries, Prefix(cfg))
         IN  [s EXCEPT !.hpath = PosixJoin(name, LimaGrp),
                       !.group = name,
                       !.entries = IF name \in DOMAIN @ THEN @
                                   ELSE (name :> NewEntry) @@ @]

\* (mutant of InitMeta, below) an existing detector_name is overwritten
InitMetaOverwrite(s, cfg) ==
    IF s.exc # "ok" THEN s
    ELSE [s EXCEPT !.entries[s.group].meta = {"detector_name"} \cup DOMAIN cfg]

\* lines 247-253: the metadata group; h5py refuses to create a member
\* ("detector_name") that exists (h5py 2: RuntimeError, "name already exists")
InitMeta(s, cfg) ==
    IF s.exc # "ok" THEN s
    ELSE IF "detector_name" \in s.entries[s.group].meta
         THEN Raise(s, "RuntimeError")
         ELSE [s EXCEPT !.entries[s.group].meta =
                            {"detector_name"} \cup DOMAIN cfg]

\* line 254, as written: self.min_size is used before line 255 clamps it
NumberOfFrames(n, m) == FloorDiv(Max(1, n) + m - 1, m) * m

\* lines 254-257
InitShape(s, cfg) ==
    IF s.exc # "ok" THEN s
    ELSE IF "number_of_frames" \notin DOMAIN cfg THEN Raise(s, "KeyError")
    ELSE IF s.min_size = 0 THEN Raise(s, "ZeroDivisionError")
    ELSE LET nf == NumberOfFrames(cfg["number_of_frames"], s.min_size)
             ms == Max(1, s.min_size)
             dy == Get(cfg, "dimY", 1)
             dx == Get(cfg, "dimX", 1)
         IN  [s EXCEPT !.min_size = ms,
                       !.shape = <<nf, dy, dx>>,
                       !.chunk = <<ms, dy, dx>>]

\* lines 262-269: the dataset (h5py refuses a negative extent), its
\* attributes, the entry's title, program and start_time
InitDataset(s, now) ==
    IF s.exc # "ok" THEN s
    ELSE IF s.shape[1] < 0 THEN Raise(s, "ValueError")
    ELSE [s EXCEPT !.dataset = s.group,
                   !.entries[s.group] =
                       [@ EXCEPT !.has_ds = TRUE,
                                 !.shape = s.shape,
                                 !.chunk = s.chunk,
                                 !.data = [i \in 1..s.shape[1] |-> FillValue],
                                 !.start = Append(@, now)]]

\* the body of init under the semaphore, lines 228-269
InitCode(s, cfg, io, now) ==
    InitDataset(InitShape(InitMeta(InitEntry(InitOpen(s, io), cfg), cfg), cfg), now)

\* ---------------------------------------------------------- flush, lines 282-289
\* (mutant) the old stop_time is kept
DelStopTimeKept(e) == e

\* del self.group.parent["stop_time"]
DelStopTime(e) == [e EXCEPT !.stop = << >>]

\* self.group.parent of a None group raises AttributeError
FlushCode(s, now) ==
    IF s.hdf5 = "None" THEN Raise(s, "RuntimeError")
    ELSE IF s.group = NoneName THEN Raise(s, "AttributeError")
    ELSE LET e == s.entries[s.group]
             found == Len(e.stop) > 0
             d == IF found THEN DelStopTime(e) ELSE e
         IN  [s EXCEPT !.entries[s.group] = [d EXCEPT !.stop = Append(@, now)],
                       !.replaced = found]

\* ---------------------------------------------------------- close, lines 295-301
\* self.shape is left as it is (line 301 clears self.size, which nothing reads)
CloseCode(s) ==
    IF s.hdf5 # "None"
    THEN [s EXCEPT !.hdf5 = "None", !.nopen = @ - 1, !.group = NoneName,
                   !.dataset = NoneName, !.chunk = NoneTuple]
    ELSE s

\* ---------------------------------------------------------- write, lines 309-315
\* (mutant) every write resizes to index + 1, without the test of line 313
WriteCodeAlwaysResize(s, index, data, bshape) ==
    IF s.dataset = NoneName THEN s
    ELSE [s EXCEPT !.entries[s.dataset].data =
             [i \in 1..(index + 1) |->
                 IF i = index + 1 THEN data
                 ELSE IF i <= Len(@) THEN @[i] ELSE FillValue]]

\* (mutant) the buffer goes to slot 0 whatever the index
SetItemFirst(d, index, data) == [d EXCEPT ![1] = data]

\* self.dataset.resize(n, axis=0)
Resize(d, n) == [i \in 1..n |-> IF i <= Len(d) THEN d[i] ELSE FillValue]

\* self.dataset[index] = data
SetItem(d, index, data) == [d EXCEPT ![index + 1] = data]

\* all but the last element of a tuple
Front(q) == SubSeq(q, 1, Len(q) - 1)

\* Whether h5py stores a buffer of shape src in a selection of shape tgt
\* (h5py's selection broadcasting, which self.dataset[index] = data goes
\* through): from the last axis on, a source axis must have the selection's
\* length or length 1; source axes the selection has no axis for must have
\* length 1.  If not, h5py raises TypeError ("Can't broadcast").
RECURSIVE Broadcasts(_, _)
Broadcasts(src, tgt) ==
    IF src = << >> THEN TRUE
    ELSE IF tgt = << >> THEN \A i \in 1..Len(src) : src[i] = 1
    ELSE /\ src[Len(src)] = 1 \/ src[Len(src)] = tgt[Len(tgt)]
         /\ Broadcasts(Front(src), Front(tgt))

\* self.dataset.shape[1:]: the shape of one frame of the dataset
FrameShape(e) == Tail(e.shape)

\* the early return of lines 309-312, the resize of 313-314, the store of 315.
\* bshape is data.shape; the store raises when h5py cannot broadcast the
\* buffer to the frame, after the resize has been done.
WriteCode(s, index, data, bshape) ==
    IF s.dataset = NoneName THEN s
    ELSE LET e == s.entries[s.dataset]
             g == IF index >= Len(e.data) THEN Resize(e.data, index + 1)
                  ELSE e.data
         IN  IF ~Broadcasts(bshape, FrameShape(e))
             THEN Raise([s EXCEPT !.entries[s.dataset].data = g], "TypeError")
             ELSE [s EXCEPT !.entries[s.dataset].data = SetItem(g, index, data)]

\* ------------------------------------------------------ setConfig, lines 331-333
\* Of the options, the model keeps the two init reads or writes: hpath and
\* min_size.
Recognized(config, k) == k \in DOMAIN config /\ k \in CONFIG_ITEMS

\* (mutant of SetConfigCode, below) a key that is no option is an error
SetConfigCodeStrict(s, config) ==
    IF DOMAIN config \subseteq CONFIG_ITEMS
    THEN [s EXCEPT !.hpath = IF Recognized(config, "hpath")
                             THEN config["hpath"] ELSE @,
                   !.min_size = IF Recognized(config, "min_size")
                                THEN config["min_size"] ELSE @]
    ELSE Raise(s, "KeyError")

SetConfigCode(s, config) ==
    [s EXCEPT !.hpath = IF Recognized(config, "hpath") THEN config["hpath"] ELSE @,
              !.min_size = IF Recognized(config, "min_size")
                           THEN config["min_size"] ELSE @]

\* ------------------------------------------------------------------ inputs
EmptyDict == [k \in {} |-> 0]

\* the dicts with key k absent, or present with a value of vs
Opt(k, vs) == {EmptyDict} \cup {k :> v : v \in vs}

\* the lima_cfg arguments init is called with (None is the default argument)
LimaCfgs ==
    {PyNone} \cup
    Opt("number_of_frames", (0 - 1)..MaxFrames) \cup
    { [prefix |-> <<"s">>, number_of_frames |-> 1, dimY |-> 3, dimX |-> 4] }

\* the config_dict arguments setConfig is called with
ConfigBags ==
    { m @@ h @@ u :
        m \in Opt("min_size", (0 - 1)..MaxMinSize),
        h \in Opt("hpath", {<<"r", "_">>}),
        u \in Opt("bogus", {1}) }

\* the buffers write is called with: frames of one pixel with each value,
\* and a single row of four pixels
Buffers ==
    {[v |-> b, shape |-> <<1, 1>>] : b \in 1..MaxBuf} \cup
    {[v |-> 1, shape |-> <<4>>]}

\* what the second h5py.File call of init may do; init makes it only after
\* the first one failed
Retries == IF file = "corrupt" THEN {"ok", "retry_fails"} ELSE {"ok"}

Args(p) ==
    CASE p = "init_wait" ->
            {[op |-> "init", lima_cfg |-> c, io |-> i] :
                c \in LimaCfgs, i \in Retries}
      [] p = "write_wait" ->
            {[op |-> "write", index |-> i, data |-> b.v, bshape |-> b.shape] :
                i \in 0..MaxIndex, b \in Buffers}
      [] p \in {"flush_wait", "close_flush_wait"} -> {[op |-> "flush"]}
      [] OTHER -> {[op |-> "close"]}

\* the step a waiting thread takes when it gets the semaphore
Entered(p) ==
    CASE p = "init_wait" -> "init_cs"
      [] p = "write_wait" -> "write_cs"
      [] p = "flush_wait" -> "flush_cs"
      [] p = "close_flush_wait" -> "close_flush_cs"
      [] OTHER -> "close_cs"

WaitPcs == {"init_wait", "write_wait", "flush_wait", "close_flush_wait", "close_wait"}

\* --------------------------------------------------------------- lifecycle
\* Spec 4.4: init leads to Ready on success and to Uninitialized on failure;
\* a close that returns leads from Ready to Closed; nothing else moves.
LifeAfter(op, exc, old) ==
    CASE op = "init" -> IF exc = "ok" THEN "Ready" ELSE "Uninitialized"
      [] op = "close" -> IF exc = "ok" /\ old = "Ready" THEN "Closed" ELSE old
      [] OTHER -> old

\* ----------------------------------------------------------------- actions
Init ==
    /\ sem = SemInitial
    /\ initialized = FALSE
    /\ hpath = DefaultHpath
    /\ min_size = DefaultMinSize
    /\ hdf5 = "None"
    /\ nopen = 0
    /\ group = NoneName
    /\ dataset = NoneName
    /\ chunk = NoneTuple
    /\ shape = NoneTuple
    /\ \/ file \in {"absent", "corrupt"} /\ entries = EmptyContainer
       \/ file = "valid" /\ entries \in InitialContainers
    /\ clock = 0
    /\ pc = [t \in Threads |-> "idle"]
    /\ arg = [t \in Threads |-> NoArg]
    /\ last = NoRet
    /\ life = "Uninitialized"
    /\ written = Unwritten

\* the control thread calls init, flush or close: up to `with self._sem`
CallControl(t, p) ==
    /\ t = Control
    /\ pc[t] = "idle"
    /\ clock < MaxClock
    /\ clock' = clock + 1
    /\ pc' = [pc EXCEPT ![t] = p]
    /\ UNCHANGED <<sem, initialized, hpath, min_size, hdf5, nopen, group,
                   dataset, chunk, shape, file, entries, arg, last, life,
                   written>>

CallInit(t) == CallControl(t, "init_wait")

CallFlush(t) == CallControl(t, "flush_wait")

\* close() starts with self.flush()
CallClose(t) == CallControl(t, "close_flush_wait")

\* a frame thread calls write
CallWrite(t) ==
    /\ t \in Writers
    /\ pc[t] = "idle"
    /\ clock < MaxClock
    /\ clock' = clock + 1
    /\ pc' = [pc EXCEPT ![t] = "write_wait"]
    /\ UNCHANGED <<sem, initialized, hpath, min_size, hdf5, nopen, group,
                   dataset, chunk, shape, file, entries, arg, last, life, written>>

\* (mutant of CanAcquire, below) acquire() never blocks
CanAcquireAlways == TRUE

\* Semaphore.acquire(): blocks while the counter is 0
CanAcquire == sem > 0

\* `with self._sem:` entered.  The call's arguments are inputs the state does
\* not constrain; they are drawn here, where the body starts to read them.
Acquire(t) ==
    /\ pc[t] \in WaitPcs
    /\ CanAcquire
    /\ sem' = sem - 1
    /\ pc' = [pc EXCEPT ![t] = Entered(pc[t])]
    /\ \E a \in Args(pc[t]) : arg' = [arg EXCEPT ![t] = a]
    /\ UNCHANGED <<initialized, hpath, min_size, hdf5, nopen, group, dataset,
                   chunk, shape, file, entries, clock, last, life,
                   written>>

\* (mutant of Release, below) the semaphore is released on return only
ReleaseOnReturn(exc) == IF exc = "ok" THEN sem + 1 ELSE sem

\* the end of a `with self._sem:` block: Semaphore.release(), whether the
\* block is left by its end, by a return or by an exception
Release(exc) == sem + 1

\* the body of init, and the semaphore's release on return or exception
InitBody(t) ==
    /\ pc[t] = "init_cs"
    /\ LET r == InitCode(Cur, arg[t].lima_cfg, arg[t].io, clock)
       IN  /\ Commit(r)
           /\ last' = [op |-> "init", exc |-> r.exc,
                       opens |-> r.opens, unlinks |-> r.unlinks]
           /\ life' = LifeAfter("init", r.exc, life)
           /\ written' = IF r.exc = "ok" THEN Unwritten ELSE written
           /\ sem' = Release(r.exc)
    /\ pc' = [pc EXCEPT ![t] = "idle"]
    /\ arg' = [arg EXCEPT ![t] = NoArg]
    /\ UNCHANGED <<initialized, clock>>

\* the body of flush, called directly or as the first statement of close
FlushBody(t) ==
    /\ pc[t] \in {"flush_cs", "close_flush_cs"}
    /\ LET r == FlushCode(Cur, clock)
           inClose == pc[t] = "close_flush_cs"
       IN  /\ Commit(r)
           /\ IF inClose /\ r.exc = "ok"
              THEN /\ pc' = [pc EXCEPT ![t] = "close_wait"]
                   /\ last' = last
                   /\ life' = life
              ELSE /\ pc' = [pc EXCEPT ![t] = "idle"]
                   /\ last' = [op |-> IF inClose THEN "close" ELSE "flush",
                               exc |-> r.exc, replaced |-> r.replaced]
                   /\ life' = LifeAfter(IF inClose THEN "close" ELSE "flush",
                                        r.exc, life)
           /\ sem' = Release(r.exc)
    /\ arg' = [arg EXCEPT ![t] = NoArg]
    /\ UNCHANGED <<initialized, clock, written>>

\* the second block of close
CloseBody(t) ==
    /\ pc[t] = "close_cs"
    /\ Commit(CloseCode(Cur))
    /\ sem' = Release("ok")
    /\ pc' = [pc EXCEPT ![t] = "idle"]
    /\ arg' = [arg EXCEPT ![t] = NoArg]
    /\ last' = [op |-> "close", exc |-> "ok"]
    /\ life' = LifeAfter("close", "ok", life)
    /\ UNCHANGED <<initialized, clock, written>>

\* the body of write
WriteBody(t) ==
    /\ pc[t] = "write_cs"
    /\ LET r == WriteCode(Cur, arg[t].index, arg[t].data, arg[t].bshape)
       IN  /\ Commit(r)
           /\ last' = [op |-> "write", exc |-> r.exc]
           /\ written' = IF life = "Ready" /\ r.exc = "ok"
                         THEN [written EXCEPT ![arg[t].index] = {arg[t].data}]
                         ELSE written
           /\ sem' = Release(r.exc)
    /\ pc' = [pc EXCEPT ![t] = "idle"]
    /\ arg' = [arg EXCEPT ![t] = NoArg]
    /\ UNCHANGED <<initialized, clock, life>>

\* setConfig: no semaphore
SetConfig(t) ==
    /\ t = Control
    /\ pc[t] = "idle"
    /\ clock < MaxClock
    /\ clock' = clock + 1
    /\ \E config \in ConfigBags :
          LET r == SetConfigCode(Cur, config)
          IN  /\ Commit(r)
              /\ last' = [op |-> "setConfig", exc |-> r.exc, config |-> config]
    /\ UNCHANGED <<sem, initialized, pc, arg, life, written>>

Next ==
    \E t \in Threads :
        \/ CallInit(t)
        \/ CallFlush(t)
        \/ CallClose(t)
        \/ CallWrite(t)
        \/ Acquire(t)
        \/ InitBody(t)
        \/ FlushBody(t)
        \/ CloseBody(t)
        \/ WriteBody(t)
        \/ SetConfig(t)

Spec == Init /\ [][Next]_vars

\* What the steps of Acquire and of the four bodies do to pc: thread t takes
\* the free semaphore, thread t leaves the body it is in.
Takes(t) ==
    /\ pc[t] \in WaitPcs
    /\ CanAcquire
    /\ pc' = [pc EXCEPT ![t] = Entered(pc[t])]

Leaves(t) ==
    /\ pc[t] \in {"init_cs", "write_cs", "flush_cs", "close_flush_cs", "close_cs"}
    /\ \E p \in {"idle", "close_wait"} : pc' = [pc EXCEPT ![t] = p]

\* Fair scheduling: a thread that can take the semaphore takes it, and a
\* thread inside a body runs it to its end.
FairSpec ==
    /\ Spec
    /\ \A t \in Threads : WF_pc(Takes(t)) /\ WF_pc(Leaves(t))

\* ------------------------------------------------------------------ claims
\* the steps in which a call's body runs to its end
InitReturns(t) == pc[t] = "init_cs" /\ pc'[t] = "idle"
WriteReturns(t) == pc[t] = "write_cs" /\ pc'[t] = "idle"
FlushRuns(t) == pc[t] \in {"flush_cs", "close_flush_cs"} /\ pc'[t] # pc[t]
CloseReleases(t) == pc[t] = "close_cs" /\ pc'[t] = "idle"

\* the writer's fields and the file
prog == <<initialized, hpath, min_size, hdf5, nopen, group, dataset, chunk,
          shape, file, entries>>

\* the allocated extent of the dataset self.dataset refers to
Extent == Len(entries[dataset].data)

\* ceil(a / b) of the real quotient
Ceil(a, b) == 0 - FloorDiv(0 - a, b)

\* C1: after a successful init with number_of_frames = n and the configured
\* min_size = m, the dataset holds ceil(max(1, n) / m) * m frames and the
\* chunk's first dimension is m.
C1_FrameCount ==
    [][\A t \in Threads :
         (InitReturns(t) /\ last'.exc = "ok") =>
            LET n == arg[t].lima_cfg["number_of_frames"]
                m == min_size
            IN  /\ Len(entries'[dataset'].data) = Ceil(Max(1, n), m) * m
                /\ chunk'[1] = m
                /\ entries'[dataset'].chunk[1] = m]_vars

\* C1, for min_size >= 1 only: the same statement holds.
C1_FrameCountPositive ==
    [][\A t \in Threads :
         (InitReturns(t) /\ last'.exc = "ok" /\ min_size >= 1) =>
            LET n == arg[t].lima_cfg["number_of_frames"]
                m == min_size
            IN  /\ Len(entries'[dataset'].data) = Ceil(Max(1, n), m) * m
                /\ chunk'[1] = m
                /\ entries'[dataset'].chunk[1] = m]_vars

\* C2: while the writer is Ready, every slot written in this run holds the
\* buffer of the last write to its index, and every other slot of the
\* allocated extent holds the fill value.
C2_LastWriteWins ==
    life = "Ready" =>
        /\ dataset # NoneName
        /\ \A i \in 0..MaxIndex :
              written[i] # {} =>
                 /\ i < Extent
                 /\ written[i] = {entries[dataset].data[i + 1]}
        /\ \A j \in 1..Extent :
              (j - 1 > MaxIndex \/ written[j - 1] = {}) =>
                 entries[dataset].data[j] = FillValue

\* C2's case: a write beyond the extent left a gap, in a dataset that grew.
C2_Witness ==
    /\ life = "Ready"
    /\ written[MaxIndex] # {}
    /\ written[MaxIndex - 1] = {}
    /\ Extent = MaxIndex + 1
    /\ shape[1] < Extent

\* C3: within a run the extent never decreases: it is at least the frame
\* count allocated at init, a write with index < extent leaves it, a write
\* with index >= extent makes it index + 1, and nothing else changes it.
C3_ExtentGrowsOnly ==
    [][/\ life' = "Ready" => Len(entries'[dataset'].data) >= shape'[1]
       /\ (life = "Ready" /\ \A t \in Threads :
                                 ~InitReturns(t) /\ ~CloseReleases(t)) =>
             /\ dataset' = dataset
             /\ Len(entries'[dataset'].data) >= Extent
             /\ \A t \in Threads :
                   WriteReturns(t) =>
                      Len(entries'[dataset'].data) =
                         IF arg[t].index >= Extent
                         THEN arg[t].index + 1 ELSE Extent
             /\ (\A t \in Threads : ~WriteReturns(t)) =>
                   Len(entries'[dataset'].data) = Extent]_vars

\* C3's case: a write grew the dataset beyond what init allocated.
C3_Witness ==
    /\ life = "Ready"
    /\ last.op = "write"
    /\ Extent > shape[1]
    /\ shape[1] >= 1

\* C4: close() on a writer that is already Closed does not raise (and is a
\* no-op).
C4_CloseIdempotent ==
    (life = "Closed" /\ last.op = "close") => last.exc = "ok"

\* C5: a flush while the writer is Ready leaves exactly one stop_time on the
\* current entry, the time of this flush, and changes nothing else: not the
\* rest of the entry, not another entry, not the writer.
C5_FlushOneStopTime ==
    [][\A t \in Threads :
         (FlushRuns(t) /\ life = "Ready") =>
            /\ last'.exc = "ok" \/ pc'[t] = "close_wait"
            /\ entries'[group].stop = <<clock>>
            /\ entries' = [entries EXCEPT ![group].stop = <<clock>>]
            /\ UNCHANGED <<initialized, hpath, min_size, hdf5, nopen, group,
                           dataset, chunk, shape, file, life>>]_vars

\* C5's case: a flush has overwritten the stop_time of an earlier flush.
C5_Witness ==
    /\ life = "Ready"
    /\ last = [op |-> "flush", exc |-> "ok", replaced |-> TRUE]
    /\ entries[group].stop = <<clock>>
    /\ entries[group].start # << >>
    /\ entries[group].start[1] < clock - 1

\* the top-level names h5py.File(self.filename) finds, from the state before
\* init: none in a file it creates or re-creates
NamesAtOpen == IF file = "valid" THEN DOMAIN entries ELSE {}

\* C6: the entry a successful init creates is named prefix + the 4-digit
\* count of the top-level names that start with prefix.
C6_EntryName ==
    [][\A t \in Threads :
         (InitReturns(t) /\ last'.exc = "ok") =>
            LET prefix == Prefix(arg[t].lima_cfg)
                count == Cardinality({i \in NamesAtOpen : StartsWith(i, prefix)})
            IN  group' = prefix \o Pad4(count)]_vars

\* C7: after an init that failed the writer holds no container handle and no
\* dataset reference.
C7_FailedInitReverts ==
    (last.op = "init" /\ last.exc # "ok") =>
        /\ hdf5 = "None"
        /\ dataset = NoneName
        /\ nopen = 0

\* C8: an init that finds the file corrupt unlinks it and opens it a second
\* time, once.  If that open fails too, the IOError is propagated and the
\* writer holds no handle; if not, the open failure is not propagated, the
\* container is empty, and with run parameters the schema accepts the writer
\* ends Ready with the entry prefix0000, the container's only name.
C8_CorruptRecovery ==
    [][\A t \in Threads :
         (InitReturns(t) /\ file = "corrupt") =>
            /\ last'.opens = 2
            /\ last'.unlinks = 1
            /\ IF arg[t].io = "retry_fails"
               THEN /\ last'.exc = "IOError"
                    /\ hdf5' = "None"
                    /\ file' = "absent"
                    /\ life' = "Uninitialized"
               ELSE /\ last'.exc # "IOError"
                    /\ file' = "valid"
                    /\ hdf5' = "File"
                    /\ ( /\ arg[t].lima_cfg # PyNone
                         /\ "number_of_frames" \in DOMAIN arg[t].lima_cfg
                         /\ min_size >= 1 ) =>
                          /\ last'.exc = "ok"
                          /\ life' = "Ready"
                          /\ group' = Prefix(arg[t].lima_cfg) \o Pad4(0)
                          /\ dataset' = group'
                          /\ DOMAIN entries' = {group'}]_vars

\* C8's case: the init of a corrupt file has succeeded after one unlink.
C8_Witness ==
    /\ last.op = "init"
    /\ last.exc = "ok"
    /\ last.unlinks = 1
    /\ last.opens = 2
    /\ life = "Ready"
    /\ group = <<"s", "_", "0", "0", "0", "0">>

\* C9: a write while the writer is not Ready does not raise and changes
\* nothing: not the writer, not the file.
C9_WriteNotReady ==
    [][\A t \in Threads :
         (WriteReturns(t) /\ life # "Ready") =>
            /\ last'.exc = "ok"
            /\ UNCHANGED prog
            /\ life' = life]_vars

\* C9, for a writer no init of which has failed since it was constructed or
\* closed (it holds no dataset reference): the same statement holds.
C9_WriteNoDataset ==
    [][\A t \in Threads :
         (WriteReturns(t) /\ dataset = NoneName) =>
            /\ last'.exc = "ok"
            /\ UNCHANGED prog
            /\ life' = life]_vars

\* C10: a flush while the writer is not Ready fails with the not-initialized
\* error (RuntimeError 'No opened file'), writes no stop_time and changes
\* nothing.
C10_FlushNotReady ==
    [][\A t \in Threads :
         (pc[t] = "flush_cs" /\ pc'[t] = "idle" /\ life # "Ready") =>
            /\ last'.op = "flush"
            /\ last'.exc = "RuntimeError"
            /\ UNCHANGED prog
            /\ life' = life]_vars

\* C10, for a writer that holds no handle: the same statement holds.
C10_FlushNoHandle ==
    [][\A t \in Threads :
         (pc[t] = "flush_cs" /\ pc'[t] = "idle" /\ hdf5 = "None") =>
            /\ last'.op = "flush"
            /\ last'.exc = "RuntimeError"
            /\ UNCHANGED prog
            /\ life' = life]_vars

\* the positions inside a `with self._sem:` block
CsPcs == {"init_cs", "write_cs", "flush_cs", "close_flush_cs", "close_cs"}
InBody(t) == pc[t] \in CsPcs

\* C11: no two threads are inside the bodies of init, write (with its
\* resize), flush and close at the same time.
C11_MutualExclusion ==
    \A t, u \in Threads : (InBody(t) /\ InBody(u)) => t = u

\* C11's case: a frame thread is inside write, about to resize, while the
\* control thread waits at the semaphore for flush.
C11_Witness ==
    /\ life = "Ready"
    /\ pc["w1"] = "write_cs"
    /\ arg["w1"].index >= Extent
    /\ pc[Control] = "flush_wait"
    /\ sem = 0

\* C12: Closed is terminal: once close() has completed on a Ready writer, no
\* later call brings the writer back to Ready or opens a container again.
C12_ClosedTerminal ==
    [][life = "Closed" => (life' = "Closed" /\ hdf5' = "None" /\ nopen' = nopen)]_vars

\* the first line of __repr__, lines 215-216: "HDF5 writer  %sinitialized"
Repr == IF initialized THEN "initialized" ELSE "uninitialized"

\* C13: the self-description says "initialized" exactly when the writer is
\* Ready, and "uninitialized" otherwise.
C13_SelfDescription ==
    Repr = IF life = "Ready" THEN "initialized" ELSE "uninitialized"

\* the step that is a call of setConfig
SetConfigStep == last'.op = "setConfig" /\ clock' # clock /\ pc' = pc

\* C14: setConfig(bag), in any lifecycle state, sets every recognized option
\* of the bag to the bag's value, ignores every other key without raising,
\* leaves the options the bag does not name, and leaves the lifecycle state,
\* the handle, the dataset reference and the container as they are.
C14_SetConfigFrame ==
    [][SetConfigStep =>
          LET bag == last'.config
          IN  /\ last'.exc = "ok"
              /\ hpath' = IF "hpath" \in DOMAIN bag THEN bag["hpath"] ELSE hpath
              /\ min_size' = IF "min_size" \in DOMAIN bag
                             THEN bag["min_size"] ELSE min_size
              /\ UNCHANGED <<initialized, hdf5, nopen, group, dataset, chunk,
                             shape, file, entries, life, written, sem>>]_vars

\* C14's case: on a Ready writer, a bag with min_size, without hpath and with
\* a key that is no option has set min_size and left the rest.
C14_Witness ==
    /\ life = "Ready"
    /\ last.op = "setConfig"
    /\ last.exc = "ok"
    /\ DOMAIN last.config = {"min_size", "bogus"}
    /\ min_size = MaxMinSize
    /\ hpath = PosixJoin(group, LimaGrp)
    /\ chunk[1] = DefaultMinSize

\* C15: a write in Ready whose buffer does not have the shape of a frame
\* fails with a shape-mismatch error and stores nothing: the writer stays
\* Ready, and the dataset's contents and extent are as before the call.
C15_ShapeMismatch ==
    [][\A t \in Threads :
         ( /\ WriteReturns(t)
           /\ life = "Ready"
           /\ arg[t].bshape # FrameShape(entries[dataset]) ) =>
            /\ last'.exc = "TypeError"
            /\ entries' = entries
            /\ dataset' = dataset
            /\ life' = "Ready"]_vars

\* C15, the buffers h5py can broadcast to a frame apart: the mismatch is an
\* error (the rest of the statement still fails: the resize is done first).
C15_MismatchRaises ==
    [][\A t \in Threads :
         ( /\ WriteReturns(t)
           /\ life = "Ready"
           /\ ~Broadcasts(arg[t].bshape, FrameShape(entries[dataset])) ) =>
            /\ last'.exc = "TypeError"
            /\ life' = "Ready"]_vars

\* C16: every successful init creates a new entry: its name was not a
\* top-level name of the container before that init.
C16_EntryNameUnique ==
    [][\A t \in Threads :
         (InitReturns(t) /\ last'.exc = "ok") => group' \notin NamesAtOpen]_vars

\* the top-level names that are entries with their metadata, as every entry
\* this writer has created is
OwnEntries == {n \in NamesAtOpen : "detector_name" \in entries[n].meta}

\* C16, amended: in a container all of whose top-level names are entries this
\* writer created (fresh, or written by earlier runs, or still open from an
\* earlier init), every successful init creates an entry whose name was not
\* present before, and leaves the entries that were present as they were.
C16_UniqueAmongOwnEntries ==
    [][\A t \in Threads :
         (InitReturns(t) /\ last'.exc = "ok" /\ NamesAtOpen = OwnEntries) =>
            /\ group' \notin NamesAtOpen
            /\ DOMAIN entries' = NamesAtOpen \cup {group'}
            /\ \A n \in NamesAtOpen : entries'[n] = entries[n]]_vars

\* C16's case: a second init on the container the first one left open has
\* created a second entry.
C16_Witness ==
    /\ life = "Ready"
    /\ last.op = "init"
    /\ last.exc = "ok"
    /\ nopen = 2
    /\ Cardinality(DOMAIN entries) = 2
    /\ \A n \in DOMAIN entries : entries[n].has_ds
    /\ entries[group].start = <<clock>>

\* C17: at most one container handle is open in every reachable state, and
\* none after a close() that returned.
C17_OneHandle ==
    /\ nopen \in {0, 1}
    /\ (last.op = "close" /\ last.exc = "ok") => nopen = 0

\* the control thread is inside close(), past its flush step and before the
\* handle is released
ClosePending == pc[Control] \in {"close_wait", "close_cs"}

\* C18: close() is atomic: between its flush step and the release of the
\* handle nothing is stored in the container, and close() on a Ready writer
\* does not fail.
C18_CloseAtomic ==
    [][(ClosePending /\ life = "Ready") =>
          /\ entries' = entries
          /\ CloseReleases(Control) => (last'.exc = "ok" /\ life' = "Closed")]_vars

\* the semaphore's counter accounts for the threads inside a body: it is free
\* again after every body, however the body ended
SemAccounts == sem = SemInitial - Cardinality({t \in Threads : InBody(t)})

\* C19: the lock is released on every exit path of init, write, flush and
\* close, and under fair scheduling every call that was made returns (or
\* fails): no thread waits for the lock for ever.
C19_EveryCallReturns ==
    /\ []SemAccounts
    /\ \A t \in Threads : (pc[t] # "idle") ~> (pc[t] = "idle")

\* C19's case: a call has failed inside its body, the lock is free again and
\* a later call has gone through it.
C19_Witness ==
    /\ last.op = "write"
    /\ last.exc = "ok"
    /\ hdf5 = "File"
    /\ dataset = NoneName
    /\ sem = SemInitial
    /\ \A t \in Threads : pc[t] = "idle"

\* C20: only setConfig changes the configuration: every step of init, write,
\* flush and close leaves hpath and min_size at the value they had.
C20_OnlySetConfig ==
    [][~SetConfigStep => (hpath' = hpath /\ min_size' = min_size)]_vars

\* C20, for write, flush and close alone: the same statement holds.
C20_NotByWriteFlushClose ==
    [][(\A t \in Threads : ~InitReturns(t)) /\ ~SetConfigStep =>
          (hpath' = hpath /\ min_size' = min_size)]_vars

====
